---- MODULE Spec2Model ----
(***************************************************************************)
(* A model of music_theory/main.py: pitch classes (Note), triads (Chord),  *)
(* diatonic keys (Key), the key search (find_keys), the interactive        *)
(* program and the two example scripts.                                    *)
(*                                                                         *)
(* Python values are modelled as records, so that values of different      *)
(* Python types can be compared:                                           *)
(*   str    [str |-> <<"C", "#">>]       (a sequence of characters)        *)
(*   None   [none |-> TRUE]                                                *)
(*   Note   [note_index |-> i, note_value |-> str]                         *)
(*   Chord  [notes |-> <<Note, ...>>]                                      *)
(*   Key    [key_notation, root, mode, notes, nb_notes]                    *)
(* A call that raises yields [exc |-> "<exception class>"].  Python ints   *)
(* and bools are TLA+ integers and booleans; lists are sequences.          *)
(***************************************************************************)
EXTENDS Integers, Sequences, FiniteSets, TLC

VARIABLES
    note,       \* the Note object held by a client of the Note class (or None)
    call,       \* the last library call: [op, ..arguments.., ret]
    pc,         \* position of the interactive program
    chords,     \* its list `chords`
    keys,       \* its list `keys`
    key,        \* its Key `key` (or None)
    labels,     \* what its analysis loop printed, one entry per chord
    warning,    \* the chords its warning lists
    err         \* the exception that ended it (or None)

libVars == <<note, call>>
mainVars == <<pc, chords, keys, key, labels, warning, err>>
vars == <<note, call, pc, chords, keys, key, labels, warning, err>>

----------------------------------------------------------------------------
(* Bounds of the model *)

\* Note(i) is tried for i in -MaxNoteArg .. MaxNoteArg
MaxNoteArg == 13
\* note + n is tried for n in -MaxInterval .. MaxInterval
MaxInterval == 14
\* notation texts have at most MaxTextLen characters
MaxTextLen == 3
\* Chord.from_note_indices is tried on lists of at most MaxChordLen indices
MaxChordLen == 3
\* find_keys is tried on lists of at most MaxChords chords
MaxChords == 2
\* the interactive program reads at most MaxInputs chord lines
MaxInputs == 2

----------------------------------------------------------------------------
(* Python values *)

None == [none |-> TRUE]
Raise(kind) == [exc |-> kind]
Str(chars) == [str |-> chars]

IsNone(v) == "none" \in DOMAIN v
IsExc(v) == "exc" \in DOMAIN v
IsStr(v) == "str" \in DOMAIN v
IsNote(v) == "note_index" \in DOMAIN v
IsKey(v) == "key_notation" \in DOMAIN v
IsChord(v) == "notes" \in DOMAIN v /\ ~IsKey(v)

\* s + t on strings
StrCat(s, t) == Str(s.str \o t.str)
\* s[-1]: IndexError on the empty string
StrLast(s) == IF Len(s.str) = 0 THEN Raise("IndexError") ELSE Str(<<s.str[Len(s.str)]>>)
\* s[:-1]: the empty string stays empty
StrInit(s) == IF Len(s.str) = 0 THEN s ELSE Str(SubSeq(s.str, 1, Len(s.str) - 1))

\* list[i] with Python's negative indices: IndexError outside -len .. len-1
PyIndex(list, i) ==
    IF 0 <= i /\ i < Len(list) THEN list[i + 1]
    ELSE IF i < 0 /\ -Len(list) <= i THEN list[Len(list) + i + 1]
    ELSE Raise("IndexError")

\* a == b: by index between two Notes (Note.__eq__), by value otherwise
PyEq(a, b) ==
    IF IsNote(a) /\ IsNote(b) THEN a.note_index = b.note_index ELSE a = b

\* list.index(x): the zero-based position of the first element equal to x;
\* -1 stands for the ValueError raised when there is none
ListIndex(list, x) ==
    IF \E p \in 1..Len(list) : PyEq(list[p], x)
    THEN (CHOOSE p \in 1..Len(list) :
              PyEq(list[p], x) /\ \A q \in 1..(p - 1) : ~PyEq(list[q], x)) - 1
    ELSE -1

----------------------------------------------------------------------------
(* Module constants, main.py lines 4-16 *)

ROMAN_NUMERALS ==
    << Str(<<"i">>), Str(<<"i","i">>), Str(<<"i","i","i">>), Str(<<"i","v">>),
       Str(<<"v">>), Str(<<"v","i">>), Str(<<"v","i","i">>) >>

NOTES ==
    << Str(<<"C">>), Str(<<"C","#">>), Str(<<"D">>), Str(<<"D","#">>),
       Str(<<"E">>), Str(<<"F">>), Str(<<"F","#">>), Str(<<"G">>),
       Str(<<"G","#">>), Str(<<"A">>), Str(<<"A","#">>), Str(<<"B">>) >>

NB_NOTES == Len(NOTES)

MAJOR == "major"
MINOR == "minor"

MINOR_THIRD_INTERVAL == 3
MAJOR_THIRD_INTERVAL == 4
PERFECT_FIFTH_INTERVAL == 7

----------------------------------------------------------------------------
(* class Note *)

\* Note.__init__: stores the index as given and looks the name up with
\* NOTES[note_index], which accepts -12 .. 11
NoteNew(note_index) ==
    LET note_value == PyIndex(NOTES, note_index)
    IN  IF IsExc(note_value) THEN note_value
        ELSE [note_index |-> note_index, note_value |-> note_value]

\* Note.__eq__ (between two Notes)
NoteEq(a, b) == a.note_index = b.note_index

\* Note.__add__
NoteAdd(self, other) == NoteNew((self.note_index + other) % NB_NOTES)

\* Note.__sub__
NoteSub(self, other) == (self.note_index - other.note_index) % NB_NOTES

\* Note.from_notation: NOTES.index(notation) raises ValueError
NoteFromNotation(notation) ==
    LET i == ListIndex(NOTES, notation)
    IN  IF i < 0 THEN Raise("ValueError") ELSE NoteNew(i)

is_minor_third(note1, note2) == NoteSub(note2, note1) = MINOR_THIRD_INTERVAL
is_major_third(note1, note2) == NoteSub(note2, note1) = MAJOR_THIRD_INTERVAL
is_perfect_fifth(note1, note2) == NoteSub(note2, note1) = PERFECT_FIFTH_INTERVAL

----------------------------------------------------------------------------
(* class Chord *)

ChordNew(notes) == [notes |-> notes]

\* Chord.from_note_indices: Chord([Note(note) for note in notes]); the first
\* Note(...) that raises ends the call
from_note_indices(indices) ==
    LET made == [p \in 1..Len(indices) |-> NoteNew(indices[p])]
    IN  IF \E p \in 1..Len(made) : IsExc(made[p])
        THEN made[CHOOSE p \in 1..Len(made) :
                      IsExc(made[p]) /\ \A q \in 1..(p - 1) : ~IsExc(made[q])]
        ELSE ChordNew(made)

is_major_triad(self) ==
    IF Len(self.notes) # 3 THEN FALSE
    ELSE is_major_third(self.notes[1], self.notes[2])
         /\ is_perfect_fifth(self.notes[1], self.notes[3])

\* is_minor_triad without its test of the fifth
is_minor_triad_no_fifth(self) ==
    IF Len(self.notes) # 3 THEN FALSE
    ELSE is_minor_third(self.notes[1], self.notes[2])

is_minor_triad(self) ==
    IF Len(self.notes) # 3 THEN FALSE
    ELSE is_minor_third(self.notes[1], self.notes[2])
         /\ is_perfect_fifth(self.notes[1], self.notes[3])

is_diminished_triad(self) ==
    IF Len(self.notes) # 3 THEN FALSE
    ELSE is_minor_third(self.notes[1], self.notes[2])
         /\ is_minor_third(self.notes[2], self.notes[3])

\* Chord.to_notation: falls off the end (None) when no quality matches
to_notation(self) ==
    IF is_major_triad(self) THEN self.notes[1].note_value
    ELSE IF is_minor_triad(self) THEN StrCat(self.notes[1].note_value, Str(<<"m">>))
    ELSE IF is_diminished_triad(self) THEN StrCat(self.notes[1].note_value, Str(<<"°">>))
    ELSE None

\* from_chord_notation building the diminished triad with a perfect fifth
from_chord_notation_fifth(chord_notation) ==
    LET last == StrLast(chord_notation)
        stem == NoteFromNotation(StrInit(chord_notation))
        root == NoteFromNotation(chord_notation)
    IN  IF IsExc(last) THEN last
        ELSE IF last = Str(<<"°">>) THEN
            IF IsExc(stem) THEN stem
            ELSE ChordNew(<< stem, NoteAdd(stem, MINOR_THIRD_INTERVAL),
                             NoteAdd(stem, PERFECT_FIFTH_INTERVAL) >>)
        ELSE IF last = Str(<<"m">>) THEN
            IF IsExc(stem) THEN stem
            ELSE ChordNew(<< stem, NoteAdd(stem, MINOR_THIRD_INTERVAL),
                             NoteAdd(stem, PERFECT_FIFTH_INTERVAL) >>)
        ELSE IF \E p \in 1..Len(NOTES) : NOTES[p] = chord_notation THEN
            ChordNew(<< root, NoteAdd(root, MAJOR_THIRD_INTERVAL),
                        NoteAdd(root, PERFECT_FIFTH_INTERVAL) >>)
        ELSE None

\* Chord.from_chord_notation: chord_notation[-1] raises IndexError on the
\* empty text, Note.from_notation raises ValueError, and a text that takes
\* none of the three branches falls off the end (None)
from_chord_notation(chord_notation) ==
    LET last == StrLast(chord_notation)
        stem == NoteFromNotation(StrInit(chord_notation))
        root == NoteFromNotation(chord_notation)
    IN  IF IsExc(last) THEN last
        ELSE IF last = Str(<<"°">>) THEN
            IF IsExc(stem) THEN stem
            ELSE ChordNew(<< stem, NoteAdd(stem, MINOR_THIRD_INTERVAL),
                             NoteAdd(stem, 2 * MINOR_THIRD_INTERVAL) >>)
        ELSE IF last = Str(<<"m">>) THEN
            IF IsExc(stem) THEN stem
            ELSE ChordNew(<< stem, NoteAdd(stem, MINOR_THIRD_INTERVAL),
                             NoteAdd(stem, PERFECT_FIFTH_INTERVAL) >>)
        ELSE IF \E p \in 1..Len(NOTES) : NOTES[p] = chord_notation THEN
            ChordNew(<< root, NoteAdd(root, MAJOR_THIRD_INTERVAL),
                        NoteAdd(root, PERFECT_FIFTH_INTERVAL) >>)
        ELSE None

----------------------------------------------------------------------------
(* class Key *)

\* get_root_and_mode_from_key: the pair (root, mode), or the exception raised
get_root_and_mode_from_key(notation) ==
    LET last == StrLast(notation)
        root == IF last = Str(<<"m">>) THEN NoteFromNotation(StrInit(notation))
                ELSE NoteFromNotation(notation)
    IN  IF IsExc(last) THEN last
        ELSE IF IsExc(root) THEN root
        ELSE IF last = Str(<<"m">>) THEN [root |-> root, mode |-> MINOR]
        ELSE [root |-> root, mode |-> MAJOR]

\* the major steps with the semitone one place late
MajorSteps_late == <<2, 2, 2, 1, 2, 2>>
MajorSteps == <<2, 2, 1, 2, 2, 2>>
\* the steps of the harmonic minor scale
MinorSteps_harmonic == <<2, 1, 2, 2, 1, 3>>
MinorSteps == <<2, 1, 2, 2, 1, 2>>

\* the loop `for step in steps: notes.append(notes[-1] + step)`
RECURSIVE AppendSteps(_, _)
AppendSteps(notes, steps) ==
    IF steps = <<>> THEN notes
    ELSE AppendSteps(Append(notes, NoteAdd(notes[Len(notes)], Head(steps))), Tail(steps))

\* Key.get_notes
get_notes(root, mode) ==
    IF mode = MAJOR THEN AppendSteps(<<root>>, MajorSteps)
    ELSE AppendSteps(<<root>>, MinorSteps)

\* Key.__init__
KeyNew(notation) ==
    LET rm == get_root_and_mode_from_key(notation)
    IN  IF IsExc(rm) THEN rm
        ELSE LET notes == get_notes(rm.root, rm.mode)
             IN  [key_notation |-> notation, root |-> rm.root, mode |-> rm.mode,
                  notes |-> notes, nb_notes |-> Len(notes)]

\* contains_chord looking at the first note of the chord only
contains_chord_root_only(self, chord) ==
    \A p \in 1..Len(chord.notes) :
        p = 1 => \E q \in 1..Len(self.notes) : NoteEq(self.notes[q], chord.notes[p])

\* Key.contains_chord, for a Chord
contains_chord(self, chord) ==
    \A p \in 1..Len(chord.notes) :
        \E q \in 1..Len(self.notes) : NoteEq(self.notes[q], chord.notes[p])

\* str.upper() on a numeral
Upper(s) == Str([p \in 1..Len(s.str) |->
                    IF s.str[p] = "i" THEN "I" ELSE IF s.str[p] = "v" THEN "V" ELSE s.str[p]])

\* get_numeral_from_chord without upper() for a major triad
get_numeral_from_chord_no_upper(self, chord) ==
    IF Len(chord.notes) = 0 THEN Raise("IndexError")
    ELSE LET root == chord.notes[1]
             chord_value == ListIndex(self.notes, root)
             numeral == ROMAN_NUMERALS[chord_value + 1]
         IN  IF chord_value < 0 THEN
                 IF IsNone(to_notation(chord)) THEN Raise("TypeError") ELSE Raise("IOError")
             ELSE IF is_major_triad(chord) THEN numeral
             ELSE IF is_minor_triad(chord) THEN numeral
             ELSE IF is_diminished_triad(chord) THEN StrCat(numeral, Str(<<"°">>))
             ELSE None

\* Key.get_numeral_from_chord, for a Chord.  The message of the IOError is an
\* f-string over the chord, whose __repr__ is to_notation: for a chord of no
\* quality __repr__ returns None and the formatting raises TypeError instead.
get_numeral_from_chord(self, chord) ==
    IF Len(chord.notes) = 0 THEN Raise("IndexError")
    ELSE LET root == chord.notes[1]
             chord_value == ListIndex(self.notes, root)
             numeral == ROMAN_NUMERALS[chord_value + 1]
         IN  IF chord_value < 0 THEN
                 IF IsNone(to_notation(chord)) THEN Raise("TypeError") ELSE Raise("IOError")
             ELSE IF is_major_triad(chord) THEN Upper(numeral)
             ELSE IF is_minor_triad(chord) THEN numeral
             ELSE IF is_diminished_triad(chord) THEN StrCat(numeral, Str(<<"°">>))
             ELSE None

\* Key.all_keys, from the p-th name of NOTES on
RECURSIVE all_keys_from(_)
all_keys_from(p) ==
    IF p > Len(NOTES) THEN <<>>
    ELSE << KeyNew(NOTES[p]), KeyNew(StrCat(NOTES[p], Str(<<"m">>))) >> \o all_keys_from(p + 1)

\* list(Key.all_keys())
all_keys == all_keys_from(1)

\* all_chords stacking a fourth on the third
all_chords_yield_fourth(self, i) ==
    ChordNew(<< self.notes[i + 1],
                self.notes[((i + 2) % self.nb_notes) + 1],
                self.notes[((i + 5) % self.nb_notes) + 1] >>)

\* the chord Key.all_chords yields in the turn i of its loop
all_chords_yield(self, i) ==
    ChordNew(<< self.notes[i + 1],
                self.notes[((i + 2) % self.nb_notes) + 1],
                self.notes[((i + 4) % self.nb_notes) + 1] >>)

\* list(key.all_chords())
all_chords(self) == [p \in 1..self.nb_notes |-> all_chords_yield(self, p - 1)]

----------------------------------------------------------------------------
(* find_keys *)

\* the inner loop of find_keys with is_key set by every chord, so that the
\* last chord decides
RECURSIVE is_key_after_last_wins(_, _, _, _)
is_key_after_last_wins(k, list, p, is_key) ==
    IF p > Len(list) THEN is_key
    ELSE is_key_after_last_wins(k, list, p + 1, contains_chord(k, list[p]))

\* the inner loop of find_keys: is_key after the chords from position p on
RECURSIVE is_key_after(_, _, _, _)
is_key_after(k, list, p, is_key) ==
    IF p > Len(list) THEN is_key
    ELSE is_key_after(k, list, p + 1,
                      IF ~contains_chord(k, list[p]) THEN FALSE ELSE is_key)

\* the outer loop of find_keys: keys after the keys `rest` still to come
RECURSIVE find_keys_from(_, _, _)
find_keys_from(list, rest, found) ==
    IF rest = <<>> THEN found
    ELSE find_keys_from(list, Tail(rest),
                        IF is_key_after(Head(rest), list, 1, TRUE)
                        THEN Append(found, Head(rest)) ELSE found)

\* find_keys, for a list of Chords
find_keys(list) == find_keys_from(list, all_keys, <<>>)

\* the exception find_keys raises, None when it returns: the first key's
\* key.contains_chord(chord) reads chord.notes, AttributeError when an
\* element of the list is None
find_keys_raises(list) ==
    IF \E p \in 1..Len(list) : IsNone(list[p]) THEN Raise("AttributeError") ELSE None

----------------------------------------------------------------------------
(* Inputs *)

\* the characters of the texts tried: the letters and markers of the
\* notation, and "H", a letter of no pitch name
Alphabet == {"A", "B", "C", "D", "E", "F", "G", "#", "m", "°", "H"}

\* every text of at most MaxTextLen characters, the empty text included
Texts == {Str(t) : t \in UNION {[1..n -> Alphabet] : n \in 0..MaxTextLen}}

NoteArgs == (-MaxNoteArg)..MaxNoteArg
Intervals == (-MaxInterval)..MaxInterval

\* the Notes Note(i) can make
Notes == {NoteNew(i) : i \in {j \in NoteArgs : ~IsExc(NoteNew(j))}}

\* every list of at most n elements of S
ListsUpTo(S, n) == UNION {[1..m -> S] : m \in 0..n}

\* the chords Chord.from_chord_notation can make
NotatedChords == {from_chord_notation(t) : t \in {u \in Texts : IsChord(from_chord_notation(u))}}

\* the chords Chord.from_note_indices makes of pitch classes 0 .. 11
IndexChords == {from_note_indices(l) : l \in ListsUpTo(0..(NB_NOTES - 1), MaxChordLen)}

----------------------------------------------------------------------------
(* Initial state *)

Init ==
    /\ note = None
    /\ call = [op |-> "none"]
    /\ pc = "read_chords"
    /\ chords = <<>>
    /\ keys = <<>>
    /\ key = None
    /\ labels = <<>>
    /\ warning = <<>>
    /\ err = None

----------------------------------------------------------------------------
(* Clients of the library.  A client starts with one constructor call and  *)
(* then calls methods on the object it got.  No caller in the repository   *)
(* catches an exception, so a call that raises ends the client.            *)

Fresh == call.op = "none"
Live == call.op # "none" /\ call.ok

(* A client of class Note: it holds one Note *)

\* note = Note(i)
NoteCtor ==
    /\ Fresh
    /\ \E i \in NoteArgs :
        LET r == NoteNew(i)
        IN  /\ call' = [op |-> "Note", ok |-> ~IsExc(r), arg |-> i, ret |-> r]
            /\ note' = IF IsExc(r) THEN note ELSE r
    /\ UNCHANGED mainVars

\* note = Note.from_notation(t)
NoteParse ==
    /\ Fresh
    /\ \E t \in Texts :
        LET r == NoteFromNotation(t)
        IN  /\ call' = [op |-> "Note.from_notation", ok |-> ~IsExc(r), arg |-> t, ret |-> r]
            /\ note' = IF IsExc(r) THEN note ELSE r
    /\ UNCHANGED mainVars

\* note = note + n
NotePlus ==
    /\ Live /\ IsNote(note)
    /\ \E n \in Intervals :
        LET r == NoteAdd(note, n)
        IN  /\ call' = [op |-> "Note.__add__", ok |-> ~IsExc(r), self |-> note,
                        arg |-> n, ret |-> r]
            /\ note' = IF IsExc(r) THEN note ELSE r
    /\ UNCHANGED mainVars

\* note - other
NoteMinus ==
    /\ Live /\ IsNote(note)
    /\ \E other \in Notes :
        call' = [op |-> "Note.__sub__", ok |-> TRUE, self |-> note, arg |-> other,
                 ret |-> NoteSub(note, other)]
    /\ UNCHANGED <<note, mainVars>>

NextNote == NoteCtor \/ NoteParse \/ NotePlus \/ NoteMinus

SpecNote == Init /\ [][NextNote]_vars

----------------------------------------------------------------------------
(* A client of class Chord.  The chord it holds is the object its          *)
(* constructor call returned; `made_by` remembers that call.               *)

ChordArgs == (-NB_NOTES - 1)..NB_NOTES

\* chord = Chord.from_chord_notation(t)
ChordParse ==
    /\ Fresh
    /\ \E t \in Texts :
        LET r == from_chord_notation(t)
        IN  call' = [op |-> "Chord.from_chord_notation", ok |-> ~IsExc(r),
                     arg |-> t, ret |-> r]
    /\ UNCHANGED <<note, mainVars>>

\* chord = Chord.from_note_indices(l)
ChordFromIndices ==
    /\ Fresh
    /\ \E l \in ListsUpTo(ChordArgs, MaxChordLen) :
        LET r == from_note_indices(l)
        IN  call' = [op |-> "Chord.from_note_indices", ok |-> ~IsExc(r),
                     arg |-> l, ret |-> r]
    /\ UNCHANGED <<note, mainVars>>

ChordCtors == {"Chord.from_chord_notation", "Chord.from_note_indices"}
ChordMethods == {"Chord.is_major_triad", "Chord.is_minor_triad",
                 "Chord.is_diminished_triad", "Chord.to_notation"}

HoldsChord ==
    /\ Live
    /\ \/ call.op \in ChordCtors /\ IsChord(call.ret)
       \/ call.op \in ChordMethods

HeldChord == IF call.op \in ChordCtors THEN call.ret ELSE call.self
HeldChordMadeBy ==
    IF call.op \in ChordCtors THEN [op |-> call.op, arg |-> call.arg] ELSE call.made_by

ChordIsMajor ==
    /\ HoldsChord
    /\ call' = [op |-> "Chord.is_major_triad", ok |-> TRUE, self |-> HeldChord,
                made_by |-> HeldChordMadeBy, ret |-> is_major_triad(HeldChord)]
    /\ UNCHANGED <<note, mainVars>>

ChordIsMinor ==
    /\ HoldsChord
    /\ call' = [op |-> "Chord.is_minor_triad", ok |-> TRUE, self |-> HeldChord,
                made_by |-> HeldChordMadeBy, ret |-> is_minor_triad(HeldChord)]
    /\ UNCHANGED <<note, mainVars>>

ChordIsDiminished ==
    /\ HoldsChord
    /\ call' = [op |-> "Chord.is_diminished_triad", ok |-> TRUE, self |-> HeldChord,
                made_by |-> HeldChordMadeBy, ret |-> is_diminished_triad(HeldChord)]
    /\ UNCHANGED <<note, mainVars>>

ChordToNotation ==
    /\ HoldsChord
    /\ call' = [op |-> "Chord.to_notation", ok |-> TRUE, self |-> HeldChord,
                made_by |-> HeldChordMadeBy, ret |-> to_notation(HeldChord)]
    /\ UNCHANGED <<note, mainVars>>

NextChord ==
    \/ ChordParse \/ ChordFromIndices
    \/ ChordIsMajor \/ ChordIsMinor \/ ChordIsDiminished \/ ChordToNotation

SpecChord == Init /\ [][NextChord]_vars

----------------------------------------------------------------------------
(* A client of class Key.  The key it holds is the object Key(t) returned. *)

\* the chords handed to the methods of a key
KeyChordArgs == NotatedChords \cup IndexChords

\* key = Key(t)
KeyCtor ==
    /\ Fresh
    /\ \E t \in Texts :
        LET r == KeyNew(t)
        IN  call' = [op |-> "Key", ok |-> ~IsExc(r), arg |-> t, ret |-> r]
    /\ UNCHANGED <<note, mainVars>>

KeyMethods == {"Key.contains_chord", "Key.get_numeral_from_chord", "Key.all_chords"}

HoldsKey == Live /\ (call.op = "Key" \/ call.op \in KeyMethods)
HeldKey == IF call.op = "Key" THEN call.ret ELSE call.self

\* the chord a client tries its key on: any chord at first, then the same
\* chord again (as examples/creep.py asks for the numeral of a chord and
\* then whether the key contains it)
TriesChord == Live /\ call.op \in {"Key", "Key.contains_chord", "Key.get_numeral_from_chord"}
TriedChords == IF call.op = "Key" THEN KeyChordArgs ELSE {call.arg}

\* key.contains_chord(c)
KeyContains ==
    /\ TriesChord
    /\ \E c \in TriedChords :
        call' = [op |-> "Key.contains_chord", ok |-> TRUE, self |-> HeldKey,
                 arg |-> c, ret |-> contains_chord(HeldKey, c)]
    /\ UNCHANGED <<note, mainVars>>

\* key.get_numeral_from_chord(c)
KeyNumeral ==
    /\ TriesChord
    /\ \E c \in TriedChords :
        LET r == get_numeral_from_chord(HeldKey, c)
        IN  call' = [op |-> "Key.get_numeral_from_chord", ok |-> ~IsExc(r),
                     self |-> HeldKey, arg |-> c, ret |-> r]
    /\ UNCHANGED <<note, mainVars>>

\* g = key.all_chords(): a new generator, at the top of its loop.  `before`
\* is what the previous generator of this key yielded, if it was run to its end
KeyAllChords ==
    /\ HoldsKey
    /\ call' = [op |-> "Key.all_chords", ok |-> TRUE, self |-> HeldKey,
                i |-> 0, yielded |-> <<>>, done |-> FALSE,
                before |-> IF call.op = "Key.all_chords" /\ call.done
                           THEN [yielded |-> call.yielded] ELSE None]
    /\ UNCHANGED <<note, mainVars>>

\* next(g): one turn of `for i in range(self.nb_notes): yield Chord([...])`,
\* or the end of the loop
KeyAllChordsNext ==
    /\ Live /\ call.op = "Key.all_chords" /\ ~call.done
    /\ IF call.i < call.self.nb_notes
       THEN call' = [call EXCEPT
                !.yielded = Append(@, all_chords_yield(call.self, call.i)),
                !.i = call.i + 1]
       ELSE call' = [call EXCEPT !.done = TRUE]
    /\ UNCHANGED <<note, mainVars>>

\* examples/creep.py
Creep ==
    /\ Fresh
    /\ LET creep_chords == [p \in 1..4 |-> from_chord_notation(
                               << Str(<<"G">>), Str(<<"B">>), Str(<<"C">>),
                                  Str(<<"C", "m">>) >>[p])]
           k == KeyNew(Str(<<"G">>))
           numerals == [p \in 1..4 |-> get_numeral_from_chord(k, creep_chords[p])]
       IN  call' = [op |-> "creep", ok |-> \A p \in 1..4 : ~IsExc(numerals[p]),
                    creep_chords |-> creep_chords, key |-> k, numerals |-> numerals,
                    in_key |-> [p \in 1..4 |-> contains_chord(k, creep_chords[p])]]
    /\ UNCHANGED <<note, mainVars>>

NextKey ==
    \/ KeyCtor \/ KeyContains \/ KeyNumeral \/ KeyAllChords \/ KeyAllChordsNext
    \/ Creep

SpecKey == Init /\ [][NextKey]_vars

----------------------------------------------------------------------------
(* A client of find_keys *)

\* find_keys(l)
FindKeysCall ==
    /\ Fresh
    /\ \E l \in ListsUpTo(NotatedChords, MaxChords) :
        LET r == find_keys(l)
        IN  call' = [op |-> "find_keys", ok |-> TRUE, arg |-> l, ret |-> r]
    /\ UNCHANGED <<note, mainVars>>

\* list(Key.all_keys())
AllKeysCall ==
    /\ Fresh
    /\ call' = [op |-> "Key.all_keys", ok |-> TRUE, ret |-> all_keys]
    /\ UNCHANGED <<note, mainVars>>

\* examples/no_woman_no_cry.py; keys[0] raises IndexError on an empty list
NoWomanNoCry ==
    /\ Fresh
    /\ LET nwnc_chords == [p \in 1..4 |-> from_chord_notation(
                              << Str(<<"C">>), Str(<<"G">>), Str(<<"A", "m">>),
                                 Str(<<"F">>) >>[p])]
           ks == find_keys(nwnc_chords)
           numerals == [p \in 1..4 |-> get_numeral_from_chord(ks[1], nwnc_chords[p])]
       IN  IF ks = <<>>
           THEN call' = [op |-> "no_woman_no_cry", ok |-> FALSE,
                         nwnc_chords |-> nwnc_chords, keys |-> ks,
                         ret |-> Raise("IndexError")]
           ELSE call' = [op |-> "no_woman_no_cry",
                         ok |-> \A p \in 1..4 : ~IsExc(numerals[p]),
                         nwnc_chords |-> nwnc_chords, keys |-> ks, key |-> ks[1],
                         numerals |-> numerals]
    /\ UNCHANGED <<note, mainVars>>

NextFind == FindKeysCall \/ AllKeysCall \/ NoWomanNoCry

SpecFind == Init /\ [][NextFind]_vars

----------------------------------------------------------------------------
(* The interactive program, main.py lines 192-229 *)

EmptyLine == Str(<<>>)

\* the lines typed at the chord prompt, besides the empty line
ChordLines ==
    { Str(<<"C">>), Str(<<"G">>), Str(<<"A", "m">>), Str(<<"F">>), Str(<<"B">>),
      Str(<<"C", "m">>), Str(<<"B", "°">>), Str(<<"H">>), Str(<<"H", "m">>),
      Str(<<"m">>) }

\* the lines typed at the key prompts, besides the empty line
KeyLines == { Str(<<"C">>), Str(<<"G">>), Str(<<"A", "m">>), Str(<<"H">>) }

Crash(e) ==
    /\ pc' = "crashed"
    /\ err' = e

\* one turn of the loop `while True: chord_input = input() ...`
MainReadChord ==
    /\ pc = "read_chords"
    /\ \E chord_input \in ChordLines \cup {EmptyLine} :
        IF chord_input = EmptyLine
        THEN /\ pc' = "read_key"
             /\ UNCHANGED <<chords, err>>
        ELSE /\ Len(chords) < MaxInputs
             /\ LET r == from_chord_notation(chord_input)
                IN  IF IsExc(r)
                    THEN Crash(r) /\ UNCHANGED chords
                    ELSE /\ chords' = Append(chords, r)
                         /\ UNCHANGED <<pc, err>>
    /\ UNCHANGED <<keys, key, labels, warning, libVars>>

\* key = Key(key_input)
MainMakeKey(key_input) ==
    LET k == KeyNew(key_input)
    IN  IF IsExc(k)
        THEN Crash(k) /\ UNCHANGED key
        ELSE /\ key' = k
             /\ pc' = "analyse"
             /\ UNCHANGED err

\* key_input = input("Type the key of your song..."), and find_keys when
\* it is empty
MainReadKey ==
    /\ pc = "read_key"
    /\ \E key_input \in KeyLines \cup {EmptyLine} :
        IF key_input = EmptyLine
        THEN IF IsExc(find_keys_raises(chords))
             THEN Crash(find_keys_raises(chords)) /\ UNCHANGED <<keys, key>>
             ELSE /\ keys' = find_keys(chords)
                  /\ pc' = IF keys' = <<>> THEN "exited" ELSE "choose_key"
                  /\ UNCHANGED <<key, err>>
        ELSE MainMakeKey(key_input) /\ UNCHANGED keys
    /\ UNCHANGED <<chords, labels, warning, libVars>>

\* key_input = input("Which one do you want to use? "); str(keys[0]) when
\* it is empty
MainChooseKey ==
    /\ pc = "choose_key"
    /\ \E key_input \in KeyLines \cup {EmptyLine} :
        MainMakeKey(IF key_input = EmptyLine THEN keys[1].key_notation ELSE key_input)
    /\ UNCHANGED <<chords, keys, labels, warning, libVars>>

\* what f"{chord}: {key.get_numeral_from_chord(chord)}" evaluates to: the
\* second expression reads chord.notes, AttributeError when chord is None
MainLine(chord) ==
    IF IsNone(chord) THEN Raise("AttributeError")
    ELSE LET numeral == get_numeral_from_chord(key, chord)
         IN  IF IsExc(numeral) THEN numeral
             ELSE [chord |-> to_notation(chord), numeral |-> numeral]

\* the loop `for chord in chords: print(...)`: the lines printed before the
\* first chord that raises
RECURSIVE MainLines(_)
MainLines(p) ==
    IF p > Len(chords) THEN <<>>
    ELSE IF IsExc(MainLine(chords[p])) THEN <<>>
    ELSE <<MainLine(chords[p])>> \o MainLines(p + 1)

\* the analysis and the warning
MainAnalyse ==
    /\ pc = "analyse"
    /\ labels' = MainLines(1)
    /\ IF Len(labels') < Len(chords)
       THEN Crash(MainLine(chords[Len(labels') + 1])) /\ UNCHANGED warning
       ELSE /\ warning' = SelectSeq(chords, LAMBDA c : ~contains_chord(key, c))
            /\ pc' = "done"
            /\ UNCHANGED err
    /\ UNCHANGED <<chords, keys, key, libVars>>

NextMain == MainReadChord \/ MainReadKey \/ MainChooseKey \/ MainAnalyse

SpecMain == Init /\ [][NextMain]_vars

----------------------------------------------------------------------------
(* Properties *)

\* the texts <PitchName>, <PitchName>m and <PitchName>°
WellFormed(t) ==
    \E p \in 1..12 : \E marker \in {<<>>, <<"m">>, <<"°">>} :
        t = Str(NOTES[p].str \o marker)
Marker(t) ==
    IF t.str[Len(t.str)] = "m" THEN "minor"
    ELSE IF t.str[Len(t.str)] = "°" THEN "diminished" ELSE "major"

\* The notation of the p-th of the 24 keys: roots in the order of the pitch
\* table, at each root the major key and then the minor key
EnumNotation(p) ==
    IF p % 2 = 1 THEN NOTES[(p + 1) \div 2]
    ELSE Str(NOTES[p \div 2].str \o <<"m">>)
EnumPosition(k) == CHOOSE p \in 1..24 : EnumNotation(p) = k.key_notation

\* C1: find_keys returns exactly the keys of the 24-key enumeration that
\* contain every chord of the list, in the order of the enumeration and
\* without duplicates, all 24 for the empty list; and Key.all_keys is that
\* enumeration: pitch-table order, major before minor at each root.
C1_FindKeysFilters ==
    /\ call.op = "Key.all_keys" =>
        /\ Len(call.ret) = 24
        /\ \A p \in 1..24 :
            /\ call.ret[p] = KeyNew(EnumNotation(p))
            /\ call.ret[p].root.note_index = (p - 1) \div 2
            /\ call.ret[p].mode = IF p % 2 = 1 THEN "major" ELSE "minor"
    /\ call.op = "find_keys" =>
        LET l == call.arg
            r == call.ret
            Fits(k) == \A c \in 1..Len(l) : contains_chord(k, l[c])
        IN  /\ \A j \in 1..Len(r) :
                \E p \in 1..24 : r[j] = KeyNew(EnumNotation(p))
            /\ \A p \in 1..24 :
                (\E j \in 1..Len(r) : r[j] = KeyNew(EnumNotation(p)))
                    <=> Fits(KeyNew(EnumNotation(p)))
            /\ \A j1, j2 \in 1..Len(r) :
                j1 < j2 => EnumPosition(r[j1]) < EnumPosition(r[j2])
            /\ (l = <<>> => r = [p \in 1..24 |-> KeyNew(EnumNotation(p))])

\* find_keys has run on two different chords and kept some keys, not all
C1_Witness ==
    /\ call.op = "find_keys"
    /\ Len(call.arg) = 2
    /\ call.arg[1] # call.arg[2]
    /\ Len(call.ret) > 1
    /\ Len(call.ret) < 24

\* C2: for the chords C, G, Am, F find_keys returns key C first and key Am
\* after it, both keys contain the four chords, and the numerals of the
\* chords in the first key are I, V, vi, IV.
C2_NoWomanNoCry ==
    call.op = "no_woman_no_cry" =>
        /\ call.ok
        /\ call.keys[1].key_notation = Str(<<"C">>)
        /\ call.keys[1].mode = "major"
        /\ \E j \in 2..Len(call.keys) :
            /\ call.keys[j].key_notation = Str(<<"A", "m">>)
            /\ call.keys[j].mode = "minor"
            /\ \A p \in 1..4 : contains_chord(call.keys[j], call.nwnc_chords[p])
        /\ \A p \in 1..4 : contains_chord(call.keys[1], call.nwnc_chords[p])
        /\ call.key = call.keys[1]
        /\ call.numerals = << Str(<<"I">>), Str(<<"V">>), Str(<<"v", "i">>),
                              Str(<<"I", "V">>) >>

\* the example has run and printed four numerals
C2_Witness ==
    /\ call.op = "no_woman_no_cry"
    /\ call.ok
    /\ Len(call.numerals) = 4

\* C3 as stated: for the chords G, B, C, Cm in key G the numerals are
\* I, iii, IV, iv, and Cm is not contained in the key.
C3_Original ==
    call.op = "creep" =>
        /\ call.numerals = << Str(<<"I">>), Str(<<"i", "i", "i">>), Str(<<"I", "V">>),
                              Str(<<"i", "v">>) >>
        /\ ~call.in_key[4]

\* C3 as amended: for the chords G, B, C, Cm in key G the numerals are
\* I, III, IV, iv (B is a major triad, so its numeral is in uppercase), and
\* Cm is not contained in the key while its numeral is still given.
C3_Creep ==
    call.op = "creep" =>
        /\ call.ok
        /\ call.key.key_notation = Str(<<"G">>)
        /\ call.key.mode = "major"
        /\ call.numerals = << Str(<<"I">>), Str(<<"I", "I", "I">>), Str(<<"I", "V">>),
                              Str(<<"i", "v">>) >>
        /\ ~call.in_key[4]

\* the example has run on its four chords
C3_Witness ==
    /\ call.op = "creep"
    /\ Len(call.creep_chords) = 4
    /\ to_notation(call.creep_chords[4]) = Str(<<"C", "m">>)

\* C4: every well-formed chord notation parses to a chord whose to_notation
\* is the notation itself.
C4_RoundTrip ==
    /\ (call.op = "Chord.from_chord_notation" /\ WellFormed(call.arg)) => IsChord(call.ret)
    /\ (call.op = "Chord.to_notation" /\ call.made_by.op = "Chord.from_chord_notation"
            /\ WellFormed(call.made_by.arg))
        => call.ret = call.made_by.arg

\* a diminished chord on a sharp has been parsed and written back
C4_Witness ==
    /\ call.op = "Chord.to_notation"
    /\ call.made_by.op = "Chord.from_chord_notation"
    /\ call.made_by.arg = Str(<<"F", "#", "°">>)
    /\ call.ret = Str(<<"F", "#", "°">>)

\* C5: every Note made by Note(i), Note.from_notation, note + n or
\* Chord.from_note_indices has an index in 0 .. 11, and the index of a + n is
\* (a.index + n) mod 12.
C5_IndexReduced ==
    /\ IsNote(note) => note.note_index \in 0..11
    /\ (call.op = "Chord.from_note_indices" /\ call.ok) =>
        \A p \in 1..Len(call.ret.notes) : call.ret.notes[p].note_index \in 0..11
    /\ (call.op = "Note.__add__") =>
        /\ call.ok
        /\ call.ret.note_index = (call.self.note_index + call.arg) % 12

\* the quality of a list of notes, by its intervals
Interval(a, b) == (b.note_index - a.note_index) % 12
Quality(ns) ==
    IF Len(ns) # 3 THEN "none"
    ELSE IF Interval(ns[1], ns[2]) = 4 /\ Interval(ns[1], ns[3]) = 7 THEN "major"
    ELSE IF Interval(ns[1], ns[2]) = 3 /\ Interval(ns[1], ns[3]) = 7 THEN "minor"
    ELSE IF Interval(ns[1], ns[2]) = 3 /\ Interval(ns[2], ns[3]) = 3 THEN "diminished"
    ELSE "none"

LowerNumerals ==
    << <<"i">>, <<"i", "i">>, <<"i", "i", "i">>, <<"i", "v">>, <<"v">>, <<"v", "i">>,
       <<"v", "i", "i">> >>
UpperNumerals ==
    << <<"I">>, <<"I", "I">>, <<"I", "I", "I">>, <<"I", "V">>, <<"V">>, <<"V", "I">>,
       <<"V", "I", "I">> >>

\* the first note of chord c is in the scale of key k
RootInScale(k, c) ==
    /\ Len(c.notes) > 0
    /\ \E q \in 1..7 : k.notes[q].note_index = c.notes[1].note_index
ScalePosition(k, c) == CHOOSE q \in 1..7 : k.notes[q].note_index = c.notes[1].note_index

\* C6: for a chord whose first note is in the scale of the key,
\* get_numeral_from_chord returns the numeral of the scale position of that
\* note, in uppercase for a major triad, in lowercase for a minor triad, in
\* lowercase followed by "°" for a diminished triad, and None for a chord of
\* no quality, whether or not the key contains the chord.
C6_Numeral ==
    (call.op = "Key.get_numeral_from_chord" /\ RootInScale(call.self, call.arg)) =>
        LET q == ScalePosition(call.self, call.arg)
            quality == Quality(call.arg.notes)
        IN  /\ call.ok
            /\ quality = "major" => call.ret = Str(UpperNumerals[q])
            /\ quality = "minor" => call.ret = Str(LowerNumerals[q])
            /\ quality = "diminished" => call.ret = Str(LowerNumerals[q] \o <<"°">>)
            /\ quality = "none" => call.ret = None

\* a major triad that the key does not contain got its uppercase numeral
C6_Witness ==
    /\ call.op = "Key.get_numeral_from_chord"
    /\ RootInScale(call.self, call.arg)
    /\ ~contains_chord(call.self, call.arg)
    /\ Quality(call.arg.notes) = "major"
    /\ call.ret = Str(<<"V", "I", "I">>)

\* C7: a generator of all_chords yields, in ascending order of degree, the
\* triads of the scale notes at positions i, (i+2) mod 7, (i+4) mod 7, seven
\* in all; a second generator of the same key yields the same sequence; and
\* the first triad of key G is the major triad G.
C7_AllChords ==
    call.op = "Key.all_chords" =>
        /\ Len(call.self.notes) = 7
        /\ Len(call.yielded) = call.i
        /\ call.i <= 7
        /\ call.done => Len(call.yielded) = 7
        /\ \A p \in 1..Len(call.yielded) :
            call.yielded[p].notes =
                << call.self.notes[p], call.self.notes[((p + 1) % 7) + 1],
                   call.self.notes[((p + 3) % 7) + 1] >>
        /\ (call.done /\ ~IsNone(call.before)) => call.before.yielded = call.yielded
        /\ (call.self.key_notation = Str(<<"G">>) /\ Len(call.yielded) >= 1) =>
            /\ Quality(call.yielded[1].notes) = "major"
            /\ call.yielded[1].notes[1].note_value = Str(<<"G">>)
            /\ to_notation(call.yielded[1]) = Str(<<"G">>)

\* the triads of key G have been enumerated twice
C7_Witness ==
    /\ call.op = "Key.all_chords"
    /\ call.done
    /\ ~IsNone(call.before)
    /\ call.self.key_notation = Str(<<"G">>)
    /\ Len(call.yielded) = 7

\* C8: of is_major_triad, is_minor_triad and is_diminished_triad exactly the
\* one of the marker is true for a chord parsed from a well-formed notation,
\* at most one is true for any chord, and none is true for a chord that has
\* not three notes.
C8_Classification ==
    /\ (call.op \in ChordMethods /\ call.made_by.op = "Chord.from_chord_notation") =>
        /\ WellFormed(call.made_by.arg)
        /\ call.op = "Chord.is_major_triad" =>
            call.ret = (Marker(call.made_by.arg) = "major")
        /\ call.op = "Chord.is_minor_triad" =>
            call.ret = (Marker(call.made_by.arg) = "minor")
        /\ call.op = "Chord.is_diminished_triad" =>
            call.ret = (Marker(call.made_by.arg) = "diminished")
    /\ (call.op \in ChordMethods \ {"Chord.to_notation"} /\ Len(call.self.notes) # 3) =>
        call.ret = FALSE
    /\ HoldsChord =>
        Cardinality({m \in {"major", "minor", "diminished"} :
            \/ m = "major" /\ is_major_triad(HeldChord)
            \/ m = "minor" /\ is_minor_triad(HeldChord)
            \/ m = "diminished" /\ is_diminished_triad(HeldChord)}) <= 1

\* is_diminished_triad has said yes to a parsed diminished chord
C8_Witness ==
    /\ call.op = "Chord.is_diminished_triad"
    /\ call.made_by.op = "Chord.from_chord_notation"
    /\ Marker(call.made_by.arg) = "diminished"
    /\ call.ret = TRUE

\* C9: an ill-formed chord text is surfaced where it is parsed: no later
\* operation on the chord list of the program fails on an entry that is not
\* a chord.
C9_SurfacedAtParsing ==
    pc = "crashed" => err # Raise("AttributeError")

\* what holds of the parse call alone: an ill-formed text never yields a Chord
C9_NeverAChord ==
    (call.op = "Chord.from_chord_notation" /\ ~WellFormed(call.arg)) => ~IsChord(call.ret)

\* C10: a key contains a notated triad iff the triad is one of the 7 triads
\* of its all_chords; every triad of all_chords has a quality, hence a
\* notation, and is contained in its key; a key contains exactly 7 of the 36
\* notated triads.
C10_ContainsIffDiatonic ==
    /\ (call.op = "Key.contains_chord" /\ call.arg \in NotatedChords) =>
        (call.ret <=> \E p \in 1..7 : all_chords(call.self)[p] = call.arg)
    /\ call.op = "Key.all_chords" =>
        \A p \in 1..Len(call.yielded) :
            /\ Quality(call.yielded[p].notes) # "none"
            /\ IsStr(to_notation(call.yielded[p]))
            /\ contains_chord(call.self, call.yielded[p])
    /\ (call.op = "Key" /\ call.ok) =>
        /\ Cardinality(NotatedChords) = 36
        /\ Cardinality({c \in NotatedChords : contains_chord(call.ret, c)}) = 7

\* a key has been asked about a notated triad whose root is in its scale
\* and which it does not contain
C10_Witness ==
    /\ call.op = "Key.contains_chord"
    /\ call.arg \in NotatedChords
    /\ RootInScale(call.self, call.arg)
    /\ call.ret = FALSE

====
